---- MODULE Spec2Model ----
(***************************************************************************)
(* Model of ostree/ostree-delta.py: the static-delta build pipeline.       *)
(*                                                                         *)
(* Text is modelled as a sequence of one-character strings, so that        *)
(* rstrip, splitlines, startswith and the metadata format are computed.    *)
(* A path is a sequence of components.  A command is a sequence of         *)
(* arguments; an argument is the sequence of the pieces it is formatted    *)
(* from.                                                                   *)
(***************************************************************************)
EXTENDS Integers, Sequences, FiniteSets, TLC

\* ------------------------------------------------------------------------
\* Bounds
\* ------------------------------------------------------------------------
MaxRefs == 3        \* longest list of refs a repository prints (SpecDetect)
MaxRepoRefs == 2    \* longest list of refs a repository prints (Spec)
MaxTimeout == 2     \* largest timeout handed to _execute_command
MaxDuration == 3    \* longest subprocess run time that still terminates

\* ------------------------------------------------------------------------
\* Values
\* ------------------------------------------------------------------------
None == <<"<None>">>
NL == "\n"
Whitespace == {" ", "\t", "\n", "\r"}

Ostree == <<"o", "s", "t", "r", "e", "e">>
RefOstreeA == Ostree \o <<"/", "a">>
RefOstreeB == Ostree \o <<"/", "b">>
RefOst == <<"o", "s", "t">>
RefM == <<"m">>
RefRemoteN == <<"r", ":", "n">>
RefOstreeX == Ostree \o <<"x">>
RefNames == {RefOstreeX, RefOstreeA, RefOstreeB, RefOst, RefM, RefRemoteN}

HashA == <<"a", "1">>
HashB == <<"b", "2">>

RECURSIVE SeqsUpTo(_, _)
SeqsUpTo(S, n) ==
    IF n = 0 THEN {<<>>}
    ELSE LET shorter == SeqsUpTo(S, n - 1)
         IN  shorter \cup {Append(s, x) : s \in shorter, x \in S}

\* The lists of refs a repository can print: no ref twice.
RefLists(names, n) ==
    {l \in SeqsUpTo(names, n) :
        \A i, j \in 1..Len(l) : l[i] = l[j] => i = j}

\* ------------------------------------------------------------------------
\* str.rstrip, str.splitlines, str.startswith, list.remove
\* ------------------------------------------------------------------------
RECURSIVE rstrip(_)
rstrip(s) ==
    IF s = <<>> THEN <<>>
    ELSE IF s[Len(s)] \in Whitespace THEN rstrip(SubSeq(s, 1, Len(s) - 1))
    ELSE s

\* Index of the first line break of s, or 0.
RECURSIVE FirstBreak(_, _)
FirstBreak(s, i) ==
    IF i > Len(s) THEN 0
    ELSE IF s[i] = NL THEN i
    ELSE FirstBreak(s, i + 1)

RECURSIVE splitlines(_)
splitlines(s) ==
    IF s = <<>> THEN <<>>
    ELSE LET b == FirstBreak(s, 1)
         IN  IF b = 0 THEN <<s>>
             ELSE <<SubSeq(s, 1, b - 1)>>
                  \o splitlines(SubSeq(s, b + 1, Len(s)))

startswith(s, prefix) ==
    /\ Len(s) >= Len(prefix)
    /\ SubSeq(s, 1, Len(prefix)) = prefix

\* list.remove(x): drop the first element equal to x.
RECURSIVE FirstIndex(_, _, _)
FirstIndex(list, x, i) ==
    IF i > Len(list) THEN 0
    ELSE IF list[i] = x THEN i
    ELSE FirstIndex(list, x, i + 1)

remove(list, x) ==
    LET k == FirstIndex(list, x, 1)
    IN  IF k = 0 THEN list
        ELSE SubSeq(list, 1, k - 1) \o SubSeq(list, k + 1, Len(list))

\* What a tool prints for a list of lines: every line ends with a newline.
RECURSIVE PrintLines(_)
PrintLines(lines) ==
    IF lines = <<>> THEN <<>>
    ELSE lines[1] \o <<NL>> \o PrintLines(Tail(lines))

\* ------------------------------------------------------------------------
\* _determine_machine_from_repo
\* ------------------------------------------------------------------------
\* The for loop of lines 86-88: the iterator holds an index into the list
\* that the body shrinks.
RECURSIVE RemoveOstreeLoop(_, _)
RemoveOstreeLoop(output, i) ==
    IF i > Len(output) THEN output
    ELSE IF startswith(output[i], Ostree)
         THEN RemoveOstreeLoop(remove(output, output[i]), i + 1)
         ELSE RemoveOstreeLoop(output, i + 1)

\* The machine chosen from the text printed by `ostree refs`.
MachineFromRefsOutput(text) ==
    LET output == RemoveOstreeLoop(splitlines(rstrip(text)), 1)
    IN  IF Len(output) = 1 THEN output[1] ELSE None

\* ------------------------------------------------------------------------
\* Command lines
\* ------------------------------------------------------------------------
join(path, name) == path \o <<"/", name>>

RefsCommand(repo) ==
    << <<"ostree">>, <<"--repo=">> \o repo, <<"refs">> >>

RevParseCommand(repo, rev) ==
    << <<"ostree">>, <<"--repo=">> \o repo, <<"rev-parse">>, rev >>

\* Variant: the two repositories trade places.
PullLocalCommandSwapped(source_repo, dest_repo, sha) ==
    << <<"ostree">>, <<"--repo=">> \o source_repo, <<"pull-local">>,
       dest_repo, sha >>

PullLocalCommand(source_repo, dest_repo, sha) ==
    << <<"ostree">>, <<"--repo=">> \o dest_repo, <<"pull-local">>,
       source_repo, sha >>

\* Variant: --from is passed whether or not there is a "from" hash.
StaticDeltaCommandAlwaysFrom(repo, outputpath, to_sha_, from_sha_) ==
    << <<"ostree">>, <<"--repo=">> \o repo, <<"static-delta">>,
       <<"generate">>, <<"--max-chunk-size=2048">>,
       <<"--min-fallback-size=0">>,
       <<"--filename=">> \o join(outputpath, "superblock"),
       <<"--to">>, to_sha_, <<"--from">>, from_sha_ >>

StaticDeltaCommand(repo, outputpath, to_sha_, from_sha_) ==
    << <<"ostree">>, <<"--repo=">> \o repo, <<"static-delta">>,
       <<"generate">>, <<"--max-chunk-size=2048">>,
       <<"--min-fallback-size=0">>,
       <<"--filename=">> \o join(outputpath, "superblock"),
       <<"--to">>, to_sha_ >>
    \o (IF from_sha_ = None THEN << <<"--empty">> >>
        ELSE << <<"--from">>, from_sha_ >>)

TarCommand(outputpath) ==
    << <<"tar">>, <<"-cf">>, join(outputpath, "data.tar"),
       <<"--directory">>, outputpath, <<"--exclude=./data.tar">>, <<".">> >>

GzipCommand(outputpath) ==
    << <<"gzip">>, <<"--force">>, join(outputpath, "data.tar") >>

\* Variant: source and destination of the rename trade places.
MvCommandSwapped(outputpath) ==
    << <<"mv">>, join(outputpath, "data.bin"),
       join(outputpath, "data.tar.gz") >>

MvCommand(outputpath) ==
    << <<"mv">>, join(outputpath, "data.tar.gz"),
       join(outputpath, "data.bin") >>

\* ------------------------------------------------------------------------
\* What the external tools do to the output directory.  Every tool may
\* fail; _execute_command never looks at the exit status.
\* ------------------------------------------------------------------------
basename(arg) == arg[Len(arg)]

HasArg(command, arg) == \E i \in 1..Len(command) : command[i] = arg

StaticDeltaOutcomes(command, fs) ==
    LET filename ==
            CHOOSE a \in {command[i] : i \in 1..Len(command)} :
                startswith(a, <<"--filename=">>)
    IN  { [rc |-> 0, files |-> fs \cup {basename(filename)}],
          [rc |-> 1, files |-> fs] }

TarOutcomes(command, fs) ==
    LET archive == basename(command[3])
    IN  { [rc |-> 0, files |-> fs \cup {archive}],
          [rc |-> 2, files |-> fs \cup {archive}],
          [rc |-> 2, files |-> fs] }

GzipOutcomes(command, fs) ==
    LET target == basename(command[Len(command)])
        gz == target \o ".gz"
        force == HasArg(command, <<"--force">>)
    IN  { [rc |-> 1, files |-> fs] }
        \cup (IF target \in fs /\ (force \/ gz \notin fs)
              THEN { [rc |-> 0, files |-> (fs \ {target}) \cup {gz}] }
              ELSE {})

MvOutcomes(command, fs) ==
    LET src == basename(command[2])
        dst == basename(command[3])
    IN  { [rc |-> 1, files |-> fs] }
        \cup (IF src \in fs
              THEN { [rc |-> 0, files |-> (fs \ {src}) \cup {dst}] }
              ELSE {})

\* ------------------------------------------------------------------------
\* _rev_parse_in_repo, _generate_metadata
\* ------------------------------------------------------------------------
\* What `ostree rev-parse` may print on standard output.
RevParseOutputs ==
    { <<>>, <<NL>>, PrintLines(<<HashA>>), PrintLines(<<HashB>>) }

\* Variant: an empty output gives the empty string instead of None.
RevParseResultEmptyString(text) ==
    LET output == splitlines(rstrip(text))
    IN  IF Len(output) >= 1 THEN output[1] ELSE <<>>

\* Lines 140-144: the first line of the output, or None.
RevParseResult(text) ==
    LET output == splitlines(rstrip(text))
    IN  IF Len(output) >= 1 THEN output[1] ELSE None

FromKey == <<"F", "r", "o", "m", "-", "s", "h", "a">>
ToKey == <<"T", "o", "-", "s", "h", "a">>

\* Lines 155-157: the text written to the metadata file.
MetadataText(from_sha_, to_sha_) ==
    FromKey \o <<":">> \o from_sha_ \o <<NL>>
    \o ToKey \o <<":">> \o to_sha_ \o <<NL>>

\* Variant: the "from" hash is recorded even when there is none.
MetadataFromHashOnly(machine_, from_sha_) == from_sha_

\* The arguments _generate_static_delta_between_shas hands to
\* _generate_metadata (lines 215-220).
MetadataFrom(machine_, from_sha_) ==
    IF from_sha_ = None THEN machine_ ELSE from_sha_

\* Variant: the single-repository and two-repository defaults trade places.
FromRevSwapped(empty, from_sha_arg, repo, update_repo_, machine_) ==
    IF empty THEN None
    ELSE IF from_sha_arg = None
         THEN IF repo = update_repo_ THEN machine_
              ELSE machine_ \o <<"^">>
         ELSE from_sha_arg

\* The "from" revision expression of lines 383-394.
FromRev(empty, from_sha_arg, repo, update_repo_, machine_) ==
    IF empty THEN None
    ELSE IF from_sha_arg = None
         THEN IF repo = update_repo_ THEN machine_ \o <<"^">>
              ELSE machine_
         ELSE from_sha_arg

\* The warning of lines 398-402 and 407-411.
RevNotFound(rev, repo) == <<"rev ">> \o rev \o <<" not found in ">> \o repo

\* pathlib.Path(path_str).resolve(strict=False), for paths without
\* symbolic links: "." components vanish and ".." drops its parent.
RECURSIVE resolve(_)
resolve(path) ==
    IF path = <<>> THEN <<>>
    ELSE LET front == resolve(SubSeq(path, 1, Len(path) - 1))
             last == path[Len(path)]
         IN  IF last = "." THEN front
             ELSE IF last = ".."
                  THEN IF front = <<>> THEN <<>>
                       ELSE SubSeq(front, 1, Len(front) - 1)
             ELSE Append(front, last)

\* ------------------------------------------------------------------------
\* State
\* ------------------------------------------------------------------------
VARIABLES
    pc,          \* position of main
    argv,        \* the command line as typed
    args,        \* the argparse namespace (argv until _parse_args returns)
    files0,      \* names of the files in the output directory at start
    repoRefs,    \* the refs of the source repository, as `ostree refs` lists
    files,       \* names of the files in the output directory
    metadata,    \* text of the metadata file in the output directory
    machine,     \* main's local machine
    update_repo, \* main's local update_repo
    to_rev,      \* main's local to_rev
    from_rev,    \* main's local from_rev
    to_sha,      \* main's local to_sha
    from_sha,    \* main's local from_sha
    cmds,        \* the commands handed to _execute_command, with exit status
    warns,       \* the warnings issued
    exit_code,   \* exit status of the process, Running until it ends
    ex           \* one call of _execute_command with a timeout

vars == << pc, argv, args, files0, repoRefs, files, metadata, machine,
           update_repo, to_rev, from_rev, to_sha, from_sha, cmds, warns,
           exit_code, ex >>

Running == -1
Stale == <<"s", "t", "a", "l", "e", NL>>
FileNames == {"metadata", "superblock", "data.tar", "data.tar.gz", "data.bin"}
OutputDir == <<"out">>
RepoDir == <<"r1">>
UpdateRepoArgs == {None, <<"r1">>, <<"r1", ".">>, <<"r2">>}

Issued(command, rc, stdout) ==
    Append(cmds, [command |-> command, rc |-> rc, stdout |-> stdout])

Exit(code) == pc' = "done" /\ exit_code' = code

\* ------------------------------------------------------------------------
\* main
\* ------------------------------------------------------------------------
\* Lines 358-362: _parse_args converts the paths, ensure_is_directory
\* raises ValueError unless the repository is a directory.
ParseArgs ==
    /\ pc = "parse"
    /\ args' = [args EXCEPT !.repo = resolve(@),
                            !.output = resolve(@),
                            !.update_repo = IF @ = None THEN None
                                            ELSE resolve(@)]
    /\ \E isdir \in BOOLEAN :
          IF isdir THEN pc' = "machine" /\ exit_code' = exit_code
          ELSE Exit(1)
    /\ UNCHANGED << ex, argv, files0, repoRefs, files, metadata, machine,
                    update_repo, to_rev, from_rev, to_sha, from_sha, cmds,
                    warns >>

\* Lines 364-371.
DetermineMachine ==
    /\ pc = "machine"
    /\ IF args.machine = None
       THEN /\ cmds' = Issued(RefsCommand(args.repo), 0, PrintLines(repoRefs))
            /\ machine' = MachineFromRefsOutput(PrintLines(repoRefs))
       ELSE /\ cmds' = cmds
            /\ machine' = args.machine
    /\ IF machine' = None THEN Exit(2)
       ELSE pc' = "revs" /\ exit_code' = exit_code
    /\ UNCHANGED << ex, argv, files0, args, repoRefs, files, metadata,
                    update_repo, to_rev, from_rev, to_sha, from_sha, warns >>

\* Lines 373-394.
ChooseRevs ==
    /\ pc = "revs"
    /\ update_repo' = IF args.update_repo = None THEN args.repo
                      ELSE args.update_repo
    /\ to_rev' = IF args.to_sha = None THEN machine ELSE args.to_sha
    /\ from_rev' = FromRev(args.empty, args.from_sha, args.repo,
                           update_repo', machine)
    /\ pc' = "rev_to"
    /\ UNCHANGED << ex, argv, files0, args, repoRefs, files, metadata,
                    machine, to_sha, from_sha, cmds, warns, exit_code >>

\* Lines 396-403.
RevParseTo ==
    /\ pc = "rev_to"
    /\ \E text \in RevParseOutputs :
          /\ cmds' = Issued(RevParseCommand(update_repo, to_rev),
                            IF text = <<>> THEN 1 ELSE 0, text)
          /\ to_sha' = RevParseResult(text)
    /\ IF to_sha' = None
       THEN warns' = Append(warns, RevNotFound(to_rev, update_repo)) /\ Exit(1)
       ELSE warns' = warns /\ pc' = "rev_from" /\ exit_code' = exit_code
    /\ UNCHANGED << ex, argv, files0, args, repoRefs, files, metadata,
                    machine, update_repo, to_rev, from_rev, from_sha >>

\* Lines 405-412; _rev_parse_in_repo returns None for the rev None
\* without running a command (lines 136-137).
RevParseFrom ==
    /\ pc = "rev_from"
    /\ IF from_rev = None
       THEN cmds' = cmds /\ from_sha' = None
       ELSE \E text \in RevParseOutputs :
              /\ cmds' = Issued(RevParseCommand(args.repo, from_rev),
                                IF text = <<>> THEN 1 ELSE 0, text)
              /\ from_sha' = RevParseResult(text)
    /\ IF from_sha' = None /\ from_rev # None
       THEN warns' = Append(warns, RevNotFound(from_rev, args.repo)) /\ Exit(1)
       ELSE warns' = warns /\ pc' = "transfer" /\ exit_code' = exit_code
    /\ UNCHANGED << ex, argv, files0, args, repoRefs, files, metadata,
                    machine, update_repo, to_rev, from_rev, to_sha >>

\* Lines 414-419.
Transfer ==
    /\ pc = "transfer"
    /\ IF args.repo # update_repo
       THEN \E rc \in {0, 1} :
              cmds' = Issued(PullLocalCommand(update_repo, args.repo, to_sha),
                             rc, <<>>)
       ELSE cmds' = cmds
    /\ pc' = "metadata"
    /\ UNCHANGED << ex, argv, files0, args, repoRefs, files, metadata,
                    machine, update_repo, to_rev, from_rev, to_sha, from_sha,
                    warns, exit_code >>

\* Lines 215-220 and 152-157.
GenerateMetadata ==
    /\ pc = "metadata"
    /\ metadata' = MetadataText(MetadataFrom(machine, from_sha), to_sha)
    /\ files' = files \cup {"metadata"}
    /\ pc' = "delta"
    /\ UNCHANGED << ex, argv, files0, args, repoRefs, machine, update_repo,
                    to_rev, from_rev, to_sha, from_sha, cmds, warns,
                    exit_code >>

\* Lines 222-248.
GenerateStaticDelta ==
    /\ pc = "delta"
    /\ LET command == StaticDeltaCommand(args.repo, args.output, to_sha,
                                         from_sha)
       IN  \E o \in StaticDeltaOutcomes(command, files) :
              cmds' = Issued(command, o.rc, <<>>) /\ files' = o.files
    /\ pc' = "tar"
    /\ UNCHANGED << ex, argv, files0, args, repoRefs, metadata, machine,
                    update_repo, to_rev, from_rev, to_sha, from_sha, warns,
                    exit_code >>

\* Lines 162-172.
Tar ==
    /\ pc = "tar"
    /\ LET command == TarCommand(args.output)
       IN  \E o \in TarOutcomes(command, files) :
              cmds' = Issued(command, o.rc, <<>>) /\ files' = o.files
    /\ pc' = "gzip"
    /\ UNCHANGED << ex, argv, files0, args, repoRefs, metadata, machine,
                    update_repo, to_rev, from_rev, to_sha, from_sha, warns,
                    exit_code >>

\* Lines 174-176.
Gzip ==
    /\ pc = "gzip"
    /\ LET command == GzipCommand(args.output)
       IN  \E o \in GzipOutcomes(command, files) :
              cmds' = Issued(command, o.rc, <<>>) /\ files' = o.files
    /\ pc' = "rename"
    /\ UNCHANGED << ex, argv, files0, args, repoRefs, metadata, machine,
                    update_repo, to_rev, from_rev, to_sha, from_sha, warns,
                    exit_code >>

\* Lines 429-438, and the return of main (line 442).
Rename ==
    /\ pc = "rename"
    /\ IF args.generate_bin
       THEN LET command == MvCommand(args.output)
            IN  \E o \in MvOutcomes(command, files) :
                   cmds' = Issued(command, o.rc, <<>>) /\ files' = o.files
       ELSE cmds' = cmds /\ files' = files
    /\ Exit(0)
    /\ UNCHANGED << ex, argv, files0, args, repoRefs, metadata, machine,
                    update_repo, to_rev, from_rev, to_sha, from_sha, warns >>

\* ------------------------------------------------------------------------
\* _execute_command(command, timeout)
\* ------------------------------------------------------------------------
NoTimeout == -1     \* timeout=None
Forever == MaxDuration + 1

\* The names bound at module level or built in when line 65 runs.
ModuleNames ==
    { "argparse", "os", "pathlib", "shutil", "subprocess", "sys", "warnings",
      "tarfile", "warning_on_one_line", "warning", "_execute_command",
      "_determine_machine_from_repo", "_get_data_from_repo",
      "_get_shas_from_repo", "_get_version_from_repo", "_rev_parse_in_repo",
      "_get_date_from_repo", "_generate_metadata", "_generate_tarball",
      "_transfer_sha_between_repos", "_generate_static_delta_between_shas",
      "_str_to_resolved_path", "ensure_is_directory", "_parse_args", "main",
      "print", "exit" }

ExIdle ==
    [ pc |-> "idle", timeout |-> NoTimeout, duration |-> 0, stdout |-> <<>>,
      elapsed |-> 0, alive |-> FALSE, killed |-> FALSE, timedout |-> FALSE,
      output |-> None, raised |-> "" ]

\* Lines 53-61.
ExecPopen ==
    /\ ex.pc = "popen"
    /\ ex' = [ex EXCEPT !.pc = "communicate", !.alive = TRUE]
    /\ UNCHANGED << pc, argv, files0, args, repoRefs, files, metadata,
                    machine, update_repo, to_rev, from_rev, to_sha, from_sha,
                    cmds, warns, exit_code >>

\* Time passes while p.communicate waits (line 63).
ExecTick ==
    /\ ex.pc = "communicate"
    /\ ex.elapsed < ex.duration
    /\ ex.elapsed < MaxDuration
    /\ ex.timeout = NoTimeout \/ ex.elapsed < ex.timeout
    /\ ex' = [ex EXCEPT !.elapsed = @ + 1]
    /\ UNCHANGED << pc, argv, files0, args, repoRefs, files, metadata,
                    machine, update_repo, to_rev, from_rev, to_sha, from_sha,
                    cmds, warns, exit_code >>

\* The subprocess ends within the timeout: lines 63, 69-71.
ExecReturn ==
    /\ ex.pc = "communicate"
    /\ ex.elapsed = ex.duration
    /\ ex' = [ex EXCEPT !.pc = "returned", !.alive = FALSE,
                        !.output = ex.stdout]
    /\ UNCHANGED << pc, argv, files0, args, repoRefs, files, metadata,
                    machine, update_repo, to_rev, from_rev, to_sha, from_sha,
                    cmds, warns, exit_code >>

\* p.communicate raises TimeoutExpired (lines 63-64).
ExecTimeoutExpired ==
    /\ ex.pc = "communicate"
    /\ ex.timeout # NoTimeout
    /\ ex.elapsed >= ex.timeout
    /\ ex.elapsed < ex.duration
    /\ ex' = [ex EXCEPT !.pc = "except", !.timedout = TRUE]
    /\ UNCHANGED << pc, argv, files0, args, repoRefs, files, metadata,
                    machine, update_repo, to_rev, from_rev, to_sha, from_sha,
                    cmds, warns, exit_code >>

\* The handler, lines 65-71: looking up ExecuteHelper comes first; kill
\* and the second communicate run only if that statement completes.
ExecHandleTimeout ==
    /\ ex.pc = "except"
    /\ ex' = IF "ExecuteHelper" \in ModuleNames
             THEN [ex EXCEPT !.pc = "returned", !.killed = TRUE,
                             !.alive = FALSE,
                             !.output = ex.stdout]
             ELSE [ex EXCEPT !.pc = "raised", !.raised = "NameError"]
    /\ UNCHANGED << pc, argv, files0, args, repoRefs, files, metadata,
                    machine, update_repo, to_rev, from_rev, to_sha, from_sha,
                    cmds, warns, exit_code >>

Next ==
    \/ ParseArgs
    \/ DetermineMachine
    \/ ChooseRevs
    \/ RevParseTo
    \/ RevParseFrom
    \/ Transfer
    \/ GenerateMetadata
    \/ GenerateStaticDelta
    \/ Tar
    \/ Gzip
    \/ Rename

\* The command line, the repository and the output directory at start.
ArgsSpace ==
    [ repo : {RepoDir}, output : {OutputDir}, update_repo : UpdateRepoArgs,
      machine : {None, RefM}, to_sha : {None, HashA},
      from_sha : {None, HashB}, generate_bin : BOOLEAN, empty : BOOLEAN ]

\* The refs of the repository when --machine is given (they are not read
\* then) and when it is not.
MainRepoRefs(machine_arg) ==
    IF machine_arg # None THEN {<<RefM>>}
    ELSE RefLists({RefOstreeA, RefM, RefRemoteN}, MaxRepoRefs)

InitLocals ==
    /\ pc = "parse"
    /\ args = argv
    /\ files = files0
    /\ metadata = (IF "metadata" \in files THEN Stale ELSE None)
    /\ machine = None
    /\ update_repo = None
    /\ to_rev = None
    /\ from_rev = None
    /\ to_sha = None
    /\ from_sha = None
    /\ cmds = <<>>
    /\ warns = <<>>
    /\ exit_code = Running

Init ==
    /\ argv \in ArgsSpace
    /\ repoRefs \in MainRepoRefs(argv.machine)
    /\ files0 \in SUBSET FileNames
    /\ InitLocals
    /\ ex = ExIdle

Spec == Init /\ [][Next]_vars

\* Machine detection over every list of refs up to MaxRefs: --machine is
\* not given, the rest of the command line is fixed.
InitDetect ==
    /\ argv = [ repo |-> RepoDir, output |-> OutputDir,
                update_repo |-> <<"r2">>, machine |-> None, to_sha |-> None,
                from_sha |-> None, generate_bin |-> TRUE, empty |-> FALSE ]
    /\ repoRefs \in RefLists(RefNames, MaxRefs)
    /\ files0 = {}
    /\ InitLocals
    /\ ex = ExIdle

SpecDetect == InitDetect /\ [][Next]_vars

\* One call of _execute_command: any timeout, any subprocess.
NextExec ==
    \/ ExecPopen
    \/ ExecTick
    \/ ExecReturn
    \/ ExecTimeoutExpired
    \/ ExecHandleTimeout

InitExec ==
    /\ argv = [ repo |-> RepoDir, output |-> OutputDir,
                update_repo |-> None, machine |-> RefM, to_sha |-> None,
                from_sha |-> None, generate_bin |-> FALSE, empty |-> FALSE ]
    /\ repoRefs = <<RefM>>
    /\ files0 = {}
    /\ InitLocals
    /\ ex \in { [ExIdle EXCEPT !.pc = "popen", !.timeout = t,
                                !.duration = d, !.stdout = o] :
                   t \in {NoTimeout} \cup 1..MaxTimeout,
                   d \in 0..Forever,
                   o \in RevParseOutputs }

SpecExec == InitExec /\ [][NextExec]_vars

\* ------------------------------------------------------------------------
\* Vocabulary of the properties
\* ------------------------------------------------------------------------
IsOstree(c, sub) ==
    c.command[1] = <<"ostree">> /\ HasArg(c.command, <<sub>>)

IsProgram(c, prog) == c.command[1] = <<prog>>

IsRevParse(c) == IsOstree(c, "rev-parse")
IsPullLocal(c) == IsOstree(c, "pull-local")
IsStaticDelta(c) == IsOstree(c, "static-delta")
IsPackaging(c) ==
    IsProgram(c, "tar") \/ IsProgram(c, "gzip") \/ IsProgram(c, "mv")

IndicesOf(P(_)) == {i \in 1..Len(cmds) : P(cmds[i])}
RevParses == SelectSeq(cmds, IsRevParse)

NonOstreeRefs(refs) == SelectSeq(refs, LAMBDA r : ~startswith(r, Ostree))

\* The refs command has been issued and its output examined.
Detected == Len(cmds) >= 1 /\ IsOstree(cmds[1], "refs")

\* The directories the command line names, read off the typed paths.
SourceRepo == <<"r1">>
UpdateRepo ==
    IF argv.update_repo \in {None, <<"r1">>, <<"r1", ".">>} THEN <<"r1">>
    ELSE <<"r2">>
SingleRepo == UpdateRepo = SourceRepo

metadata0 == IF "metadata" \in files0 THEN Stale ELSE None

\* ------------------------------------------------------------------------
\* C1 - Auto-detection returns the one ref that does not start with
\* "ostree", wherever the refs that do start with "ostree" stand in the
\* list printed by `ostree refs`.
\* ------------------------------------------------------------------------
C1_SingleRefDetected ==
    (Detected /\ Len(NonOstreeRefs(repoRefs)) = 1)
        => machine = NonOstreeRefs(repoRefs)[1]

\* ------------------------------------------------------------------------
\* C2 - With zero or several refs not starting with "ostree", detection
\* returns no machine and the process exits with code 2 having issued
\* nothing but the refs command; a ref starting with "ostree" is never the
\* machine.
\* ------------------------------------------------------------------------
C2_NoMachineExitsTwo ==
    Detected =>
        /\ Len(NonOstreeRefs(repoRefs)) # 1 =>
              /\ machine = None
              /\ pc = "done"
              /\ exit_code = 2
              /\ Len(cmds) = 1
        /\ ~startswith(machine, Ostree)

\* ------------------------------------------------------------------------
\* C3 - The "from" revision expression: None with --empty, whatever else
\* is given; otherwise --from_sha verbatim; otherwise machine^ when the
\* update repository is the source repository (omitted, or another
\* spelling of the same path) and the bare machine when it is not.
\* ------------------------------------------------------------------------
C3_FromRevChoice ==
    to_rev # None =>
        from_rev = CASE argv.empty -> None
                     [] ~argv.empty /\ argv.from_sha # None -> argv.from_sha
                     [] ~argv.empty /\ argv.from_sha = None /\ SingleRepo
                            -> machine \o <<"^">>
                     [] OTHER -> machine

C3_Witness ==
    /\ to_rev # None
    /\ ~argv.empty
    /\ argv.from_sha = None
    /\ argv.update_repo = <<"r1", ".">>
    /\ from_rev = RefM \o <<"^">>

\* ------------------------------------------------------------------------
\* C4 - With --empty no rev-parse is issued for a "from" revision, the
\* run does not fail once "to" is resolved, and static-delta generate
\* carries --empty and no --from; without --empty it carries --from with
\* the hash the second rev-parse printed, and never --empty.
\* ------------------------------------------------------------------------
C4_EmptyOrFrom ==
    /\ argv.empty =>
          /\ Len(RevParses) <= 1
          /\ to_sha # None => exit_code # 1
    /\ \A i \in IndicesOf(IsStaticDelta) :
          LET c == cmds[i].command
              n == Len(c)
          IN  IF argv.empty
              THEN /\ HasArg(c, <<"--empty">>)
                   /\ ~HasArg(c, <<"--from">>)
                   /\ c[n] = <<"--empty">>
              ELSE /\ ~HasArg(c, <<"--empty">>)
                   /\ c[n - 1] = <<"--from">>
                   /\ Len(RevParses) = 2
                   /\ PrintLines(<<c[n]>>) = RevParses[2].stdout

C4_Witness ==
    /\ argv.empty
    /\ argv.from_sha # None
    /\ IndicesOf(IsStaticDelta) # {}
    /\ pc = "done"
    /\ exit_code = 0

\* ------------------------------------------------------------------------
\* C5 - When the "to" rev-parse (against the update repository) prints
\* nothing, or without --empty the "from" rev-parse (against the source
\* repository) prints nothing, the process warns naming that revision
\* and repository and exits with code 1; nothing is pulled, written or
\* packaged, and after an unresolved "to" no second rev-parse is issued.
\* ------------------------------------------------------------------------
AbortedOn(entry) ==
    /\ pc = "done"
    /\ exit_code = 1
    /\ warns = << <<"rev ">> \o entry.command[4] \o <<" not found in ">>
                  \o Tail(entry.command[2]) >>
    /\ IndicesOf(IsPullLocal) = {}
    /\ IndicesOf(IsStaticDelta) = {}
    /\ IndicesOf(IsPackaging) = {}
    /\ metadata = metadata0
    /\ files = files0

C5_UnresolvedAborts ==
    LET rp == RevParses
    IN  /\ Len(rp) >= 1 =>
              /\ rp[1].command[2] = <<"--repo=">> \o UpdateRepo
              /\ rp[1].command[4] =
                    (IF argv.to_sha = None THEN machine ELSE argv.to_sha)
              /\ rp[1].stdout = <<>> => (AbortedOn(rp[1]) /\ Len(rp) = 1)
        /\ Len(rp) >= 2 =>
              /\ ~argv.empty
              /\ rp[2].command[2] = <<"--repo=">> \o SourceRepo
              /\ rp[2].command[4] = from_rev
              /\ rp[2].stdout = <<>> => AbortedOn(rp[2])
        /\ Len(rp) <= 2

C5_Witness ==
    /\ Len(RevParses) = 2
    /\ RevParses[2].stdout = <<>>
    /\ exit_code = 1
    /\ argv.update_repo = <<"r2">>

\* ------------------------------------------------------------------------
\* C6 - Once delta generation is reached the metadata file is exactly the
\* two lines From-sha:<f> and To-sha:<t>, <t> the hash the "to" rev-parse
\* printed and <f> the hash the "from" rev-parse printed, or the machine
\* with --empty; reading the lines back gives those values.
\* ------------------------------------------------------------------------
RECURSIVE FirstColon(_, _)
FirstColon(line, i) ==
    IF i > Len(line) THEN 0
    ELSE IF line[i] = ":" THEN i
    ELSE FirstColon(line, i + 1)

KeyOf(line) == SubSeq(line, 1, FirstColon(line, 1) - 1)
ValueOf(line) == SubSeq(line, FirstColon(line, 1) + 1, Len(line))

PrintedHash(entry) ==
    CHOOSE h \in {HashA, HashB} : PrintLines(<<h>>) = entry.stdout

ReachedDelta == pc = "delta" \/ IndicesOf(IsStaticDelta) # {}

C6_MetadataRoundTrip ==
    ReachedDelta =>
        LET lines == splitlines(metadata)
        IN  /\ "metadata" \in files
            /\ Len(lines) = 2
            /\ PrintLines(lines) = metadata
            /\ KeyOf(lines[1]) = FromKey
            /\ ValueOf(lines[1]) = (IF argv.empty THEN machine
                                    ELSE PrintedHash(RevParses[2]))
            /\ KeyOf(lines[2]) = ToKey
            /\ ValueOf(lines[2]) = PrintedHash(RevParses[1])

C6_Witness ==
    /\ ReachedDelta
    /\ argv.empty
    /\ machine = RefRemoteN
    /\ argv.to_sha = HashA
    /\ to_sha = HashB
    /\ "metadata" \in files0

\* ------------------------------------------------------------------------
\* C7 - When the tar command is issued, the metadata file and the
\* superblock are both in the output directory, also after a failed
\* static-delta generate or pull-local.
\* ------------------------------------------------------------------------
C7_FilesBeforeTar ==
    pc = "tar" => {"metadata", "superblock"} \subseteq files

\* ------------------------------------------------------------------------
\* C8 - After a run in which tar, gzip --force and mv each completed, with
\* --generate_bin the output directory holds data.bin and neither
\* data.tar.gz nor data.tar, whatever it held at the start; without
\* --generate_bin no mv is issued and it holds data.tar.gz.
\* ------------------------------------------------------------------------
Packaging == SelectSeq(cmds, IsPackaging)
PackagingDone == \A i \in 1..Len(Packaging) : Packaging[i].rc = 0
Programs(log) == [i \in 1..Len(log) |-> log[i].command[1]]

C8_FinalArtifact ==
    (pc = "done" /\ exit_code = 0) =>
        IF argv.generate_bin
        THEN /\ Programs(Packaging) = << <<"tar">>, <<"gzip">>, <<"mv">> >>
             /\ HasArg(Packaging[2].command, <<"--force">>)
             /\ PackagingDone =>
                   /\ "data.bin" \in files
                   /\ "data.tar.gz" \notin files
                   /\ "data.tar" \notin files
        ELSE /\ Programs(Packaging) = << <<"tar">>, <<"gzip">> >>
             /\ PackagingDone =>
                   /\ "data.tar.gz" \in files
                   /\ "data.tar" \notin files

C8_Witness ==
    /\ pc = "done"
    /\ exit_code = 0
    /\ argv.generate_bin
    /\ PackagingDone
    /\ {"data.tar.gz", "data.bin"} \subseteq files0
    /\ "data.bin" \in files

\* ------------------------------------------------------------------------
\* C9 - pull-local is issued if and only if the update repository is not
\* the source repository; it pulls the resolved "to" hash from the update
\* repository into the source repository, after both rev-parse calls have
\* succeeded and before static-delta generate, which always runs against
\* the source repository.
\* ------------------------------------------------------------------------
PastGate ==
    \/ pc \in {"metadata", "delta", "tar", "gzip", "rename"}
    \/ pc = "done" /\ exit_code = 0

\* The rev-parse commands that printed a hash before command i.
ResolvedBefore(i) ==
    {k \in IndicesOf(IsRevParse) : k < i /\ rstrip(cmds[k].stdout) # <<>>}

C9_Transfer ==
    /\ IndicesOf(IsPullLocal) # {} => ~SingleRepo
    /\ (PastGate /\ ~SingleRepo) => Cardinality(IndicesOf(IsPullLocal)) = 1
    /\ \A i \in IndicesOf(IsPullLocal) :
          /\ cmds[i].command =
                << <<"ostree">>, <<"--repo=">> \o SourceRepo,
                   <<"pull-local">>, UpdateRepo,
                   PrintedHash(RevParses[1]) >>
          /\ \A k \in IndicesOf(IsRevParse) : k < i
          /\ \A j \in IndicesOf(IsStaticDelta) : i < j
    /\ \A j \in IndicesOf(IsStaticDelta) :
          cmds[j].command[2] = <<"--repo=">> \o SourceRepo

\* As claimed: two rev-parse calls have succeeded before every pull-local.
C9_AfterBothRevParses ==
    /\ C9_Transfer
    /\ \A i \in IndicesOf(IsPullLocal) :
          Cardinality(ResolvedBefore(i)) = 2

\* As amended: the "to" rev-parse, and unless --empty the "from"
\* rev-parse, have succeeded before every pull-local.
C9_AfterRequiredRevParses ==
    /\ C9_Transfer
    /\ \A i \in IndicesOf(IsPullLocal) :
          Cardinality(ResolvedBefore(i)) = (IF argv.empty THEN 1 ELSE 2)

C9_Witness ==
    /\ IndicesOf(IsPullLocal) # {}
    /\ IndicesOf(IsStaticDelta) # {}
    /\ argv.empty
    /\ argv.update_repo = <<"r2">>

\* ------------------------------------------------------------------------
\* C10 - When the subprocess outlives the timeout, _execute_command kills
\* it, reaps its output and returns that output; no exception leaves the
\* function.
\* ------------------------------------------------------------------------
C10_TimeoutReturns ==
    (ex.timedout /\ ex.pc # "except") =>
        /\ ex.pc = "returned"
        /\ ex.killed
        /\ ~ex.alive
        /\ ex.output = ex.stdout
        /\ ex.raised = ""

====
